---- MODULE Spec2Model ----
(***************************************************************************)
(* Data-access repositories of the query service: the ingestion-rule Repo  *)
(* (package ingestionRules) over table ingestion_rules and the pipeline    *)
(* Repo (package pipelines) over table pipelines.  Every repository method *)
(* is one action: one SQL statement and the mapping of its rows.           *)
(*                                                                         *)
(* A Repo is of one package or the other (pkg).  Every ExecContext and     *)
(* SelectContext may fail (dbErr).  Spec is the whole of it; SpecWrite,    *)
(* SpecDeploy and SpecRead are its writers, its deployment bookkeeping and *)
(* its readers, each over the tables that concern it.                      *)
(*                                                                         *)
(* Left out: the timestamps (created_at, updated_at), the logging, and the *)
(* deployment columns of pipelines, which no statement here writes.        *)
(***************************************************************************)
EXTENDS Integers, Sequences, FiniteSets, TLC

VARIABLES
    pkg,                \* which package's Repo was constructed by NewRepo
    ingestion_rules,    \* table ingestion_rules, rows in rowid order
    pipelines,          \* table pipelines, rows in rowid order
    agent_config,       \* agent_config_elements joined to agent_config_versions
    last,               \* the latest call: its arguments and what it returned
    deploySeq,          \* seq of the latest successful MarkDeploying (-1: none)
    editedSince         \* ids edited successfully since that MarkDeploying

vars == <<pkg, ingestion_rules, pipelines, agent_config, last, deploySeq, editedSince>>

-----------------------------------------------------------------------------
(* Bounds of the model *)

MaxRows == 2            \* rows a table holds at most
MaxSeq == 1             \* deployment sequence numbers passed in are 0..MaxSeq
MaxPriority == 2        \* submitted priorities are 0..MaxPriority
MaxConfigLen == 1       \* elements of a structured configuration
MaxVersion == 1         \* agent configuration versions are 1..MaxVersion

Ids == {"u1", "u2"}
Names == {"a"}
Elems == {"0", "NaN"}   \* values a configuration holds; NaN has no JSON form

-----------------------------------------------------------------------------
(* Deploy statuses and rule types *)

PendingDeploy == "PENDING"
Deploying == "DEPLOYING"
Deployed == "DEPLOYED"
DeployFailed == "FAILED"
TerminalStatuses == {Deployed, DeployFailed}

IngestionRuleTypeDrop == "drop_rule"
IngestionRuleTypeSampling == "sampling_rule"
RuleTypes == {IngestionRuleTypeDrop, IngestionRuleTypeSampling}

logPipelines == "log_pipelines"

\* Values the schema gives to columns an INSERT leaves out.
DefaultDeployStatus == PendingDeploy
DefaultDeploySequence == -1
DefaultErrorMessage == ""

ErrorMessages == {"", "agent unreachable", "-2"}

-----------------------------------------------------------------------------
(* The serialized form of a configuration.  The Config types are declared     *)
(* outside these files; a configuration is taken to be a list of values and   *)
(* its serialized form the JSON array of them, a sequence of characters.      *)

RECURSIVE Tuples(_, _)
Tuples(S, n) ==
    IF n = 0 THEN {<<>>}
    ELSE LET shorter == Tuples(S, n - 1)
         IN  shorter \cup {Append(t, e) : t \in {s \in shorter : Len(s) = n - 1}, e \in S}

Configs == Tuples(Elems, MaxConfigLen)

\* json.Marshal fails on a value that JSON cannot express.
MarshalFails(config) == \E i \in DOMAIN config : config[i] = "NaN"

RECURSIVE JoinElems(_)
JoinElems(config) ==
    IF Len(config) = 0 THEN <<>>
    ELSE IF Len(config) = 1 THEN <<config[1]>>
    ELSE <<config[1], ",">> \o JoinElems(Tail(config))

\* json.Marshal of a configuration that has a JSON form.
Marshal(config) == <<"[">> \o JoinElems(config) \o <<"]">>

RECURSIVE ParseElems(_)
\* The elements of "e,e,...,e", or <<"error">> when the text is not of that form.
ParseElems(text) ==
    IF Len(text) = 0 THEN <<"error">>
    ELSE IF text[1] \notin (Elems \ {"NaN"}) THEN <<"error">>
    ELSE IF Len(text) = 1 THEN <<text[1]>>
    ELSE IF text[2] # "," THEN <<"error">>
    ELSE LET rest == ParseElems(SubSeq(text, 3, Len(text)))
         IN  IF rest = <<"error">> THEN rest ELSE <<text[1]>> \o rest

\* json.Unmarshal of a raw configuration: [ok, config].
Unmarshal(raw) ==
    IF Len(raw) < 2 \/ raw[1] # "[" \/ raw[Len(raw)] # "]"
    THEN [ok |-> FALSE, config |-> <<>>]
    ELSE IF Len(raw) = 2 THEN [ok |-> TRUE, config |-> <<>>]
    ELSE LET elems == ParseElems(SubSeq(raw, 2, Len(raw) - 1))
         IN  IF elems = <<"error">> THEN [ok |-> FALSE, config |-> <<>>]
             ELSE [ok |-> TRUE, config |-> elems]

\* Raw configurations json.Unmarshal rejects, as a table may hold them.
MalformedRaw == <<"[", "0">>

\* The Config of a record on which parseConfig / ParseRawConfig has not acted.
ZeroConfig == <<"unset">>

-----------------------------------------------------------------------------
(* Helpers over tables: a table is a sequence of rows *)

\* SELECT ... WHERE is SelectSeq over the table, UPDATE ... WHERE rewrites the
\* matching rows in place, DELETE ... WHERE keeps the rows that do not match.

TableIds(table) == {table[i].id : i \in DOMAIN table}

\* sqlx scans the selected columns into a fresh struct; Config is no column.
Scan(row) == [row |-> row, Config |-> ZeroConfig]

-----------------------------------------------------------------------------
(* Package ingestionRules *)

Sources == {"logs"}
SubTypes == {"always_on"}

\* A PostableIngestionRule as the caller submits it.
PostableIngestionRules ==
    [Name : Names, Source : Sources, RuleType : RuleTypes, RuleSubType : SubTypes,
     Priority : 0..MaxPriority, Config : Configs, isValid : BOOLEAN]

\* postable.IsValid() reports no error.
IsValid(postable) == postable.isValid

\* A priority written as submitted.
DefaultPriority_Unset(priority) == priority

\* The priority InsertRule and EditRule write for a submitted priority.
DefaultPriority(priority) == IF priority = 0 THEN 1 ELSE priority

\* The IngestionRule InsertRule builds from a postable whose priority is set.
InsertRow(postable, id, rawConfig) ==
    [Id |-> id, Name |-> postable.Name, Source |-> postable.Source,
     RuleType |-> postable.RuleType, RuleSubType |-> postable.RuleSubType,
     Priority |-> postable.Priority, Config |-> postable.Config,
     RawConfig |-> rawConfig,
     DeployStatus |-> PendingDeploy, DeploySequence |-> -1]

\* The row the INSERT of InsertRule stores: seven columns, the rest by default.
InsertedRuleRow(insertRow) ==
    [id |-> insertRow.Id, name |-> insertRow.Name, source |-> insertRow.Source,
     rule_type |-> insertRow.RuleType, rule_subtype |-> insertRow.RuleSubType,
     priority |-> insertRow.Priority, config_json |-> insertRow.RawConfig,
     deployment_status |-> DefaultDeployStatus,
     deployment_sequence |-> DefaultDeploySequence,
     error_message |-> DefaultErrorMessage]

\* InsertRule without its IsValid check.
InsertRuleStep_NoValidation(postable) ==
    IF MarshalFails(postable.Config) THEN "marshal" ELSE "exec"

\* What InsertRule does before it touches the database: "validate", "marshal"
\* (both return a nil row) or "exec".
InsertRuleStep(postable) ==
    IF ~IsValid(postable) THEN "validate"
    ELSE IF MarshalFails(postable.Config) THEN "marshal"
    ELSE "exec"

InsertRule(postable, id, dbErr) ==
    /\ pkg = "ingestionRules"
    /\ InsertRuleStep(postable) = "exec"
            => /\ id \notin TableIds(ingestion_rules)      \* uuid.New()
               /\ ~dbErr => Len(ingestion_rules) < MaxRows
    /\ LET step == InsertRuleStep(postable)
           defaulted == [postable EXCEPT !.Priority = DefaultPriority(postable.Priority)]
           insertRow == InsertRow(defaulted, id, Marshal(defaulted.Config))
       IN  /\ ingestion_rules' =
                IF step = "exec" /\ ~dbErr
                THEN Append(ingestion_rules, InsertedRuleRow(insertRow))
                ELSE ingestion_rules
           /\ last' =
                IF step # "exec"
                THEN [op |-> "InsertRule", isValid |-> postable.isValid,
                      row |-> <<>>, err |-> step]
                ELSE [op |-> "InsertRule", isValid |-> postable.isValid,
                      priority |-> postable.Priority, config |-> postable.Config,
                      row |-> <<insertRow>>,
                      err |-> IF dbErr THEN "db" ELSE "nil"]
    /\ UNCHANGED <<pkg, pipelines, agent_config, deploySeq, editedSince>>

\* An UPDATE that leaves deployment_sequence out of its SET clause.
EditedRow_KeepsSequence(row, name, ruleSubType, priority, rawConfig) ==
    [row EXCEPT !.name = name, !.rule_subtype = ruleSubType, !.priority = priority,
                !.config_json = rawConfig,
                !.deployment_status = PendingDeploy]

\* An UPDATE that leaves config_json out of its SET clause.
EditedRow_KeepsConfig(row, name, ruleSubType, priority, rawConfig) ==
    [row EXCEPT !.name = name, !.rule_subtype = ruleSubType, !.priority = priority,
                !.deployment_status = PendingDeploy,
                !.deployment_sequence = -2]

\* The SET clause of EditRule's UPDATE.
EditedRow(row, name, ruleSubType, priority, rawConfig) ==
    [row EXCEPT !.name = name, !.rule_subtype = ruleSubType, !.priority = priority,
                !.config_json = rawConfig,
                !.deployment_status = PendingDeploy,
                !.deployment_sequence = -2]

\* editParams is the caller's IngestionRule; EditRule writes its Priority and,
\* on success, its RawConfig.
EditRule(id, name, ruleSubType, priority, config, rawBefore, dbErr) ==
    /\ pkg = "ingestionRules"
    /\ LET newPriority == DefaultPriority(priority)
           failed == MarshalFails(config) \/ dbErr
           rawConfig == Marshal(config)
           Match(row) == row.id = id
           Set(row) == EditedRow(row, name, ruleSubType, newPriority, rawConfig)
       IN  /\ ingestion_rules' =
                IF failed THEN ingestion_rules
                ELSE [i \in DOMAIN ingestion_rules |->
                        IF Match(ingestion_rules[i]) THEN Set(ingestion_rules[i])
                        ELSE ingestion_rules[i]]
           /\ last' =
                IF failed
                THEN [op |-> "EditRule", rawBefore |-> rawBefore,
                      RawConfig |-> rawBefore,
                      err |-> IF MarshalFails(config) THEN "marshal" ELSE "db"]
                ELSE [op |-> "EditRule", id |-> id,
                      priority |-> priority, config |-> config,
                      rawBefore |-> rawBefore,
                      Priority |-> newPriority, RawConfig |-> rawConfig,
                      err |-> "nil"]
           /\ editedSince' =
                IF ~failed /\ id \in TableIds(ingestion_rules)
                THEN editedSince \cup {id} ELSE editedSince
    /\ UNCHANGED <<pkg, pipelines, agent_config, deploySeq>>

\* d.parseConfig(): json.Unmarshal of the record's RawConfig into its Config.
parseConfig(rule) ==
    LET parsed == Unmarshal(rule.row.config_json)
    IN  [ok |-> parsed.ok,
         rule |-> IF parsed.ok THEN [rule EXCEPT !.Config = parsed.config] ELSE rule]

ScanAll(rows) == [i \in DOMAIN rows |-> Scan(rows[i])]

\* for _, d := range rules { if err := d.parseConfig(); err != nil { append } }
\* d is a copy of the element: the slice keeps what Scan gave it.
RangeParse(rules) ==
    LET Fails(rule) == ~parseConfig(rule).ok
    IN  [rows |-> rules,
         errors |-> [i \in DOMAIN SelectSeq(rules, Fails) |-> "parse"]]

\* What a list operation returns for the rows its SELECT matched.
ListResult(op, rows, dbErr) ==
    IF dbErr THEN [op |-> op, rows |-> <<>>, errors |-> <<"db">>, dbErr |-> TRUE]
    ELSE LET parsed == RangeParse(ScanAll(rows))
         IN  [op |-> op, rows |-> parsed.rows, errors |-> parsed.errors, dbErr |-> FALSE]

GetDropRules(dbErr) ==
    /\ pkg = "ingestionRules"
    /\ LET Match(row) == row.rule_type = IngestionRuleTypeDrop
       IN  last' = ListResult("GetDropRules", SelectSeq(ingestion_rules, Match), dbErr)
    /\ UNCHANGED <<pkg, ingestion_rules, pipelines, agent_config, deploySeq, editedSince>>

GetDropRulesByStatus(s, dbErr) ==
    /\ pkg = "ingestionRules"
    /\ LET Match(row) == /\ row.rule_type = IngestionRuleTypeDrop
                         /\ row.deployment_status = s
           result == ListResult("GetDropRulesByStatus",
                                SelectSeq(ingestion_rules, Match), dbErr)
       IN  last' = [op |-> result.op, s |-> s, rows |-> result.rows,
                    errors |-> result.errors, dbErr |-> result.dbErr]
    /\ UNCHANGED <<pkg, ingestion_rules, pipelines, agent_config, deploySeq, editedSince>>

\* A GetRule that reports an error when no row matched.
GetRuleResult_NotFoundIsError(rules) ==
    IF Len(rules) = 0 THEN [row |-> <<>>, err |-> "InternalError"]
    ELSE LET parsed == parseConfig(rules[1])
         IN  IF Len(rules) > 1 THEN [row |-> <<>>, err |-> "InternalError"]
             ELSE IF ~parsed.ok THEN [row |-> <<rules[1]>>, err |-> "InternalError"]
             ELSE [row |-> <<parsed.rule>>, err |-> "nil"]

\* A GetRule that returns the first of the rows that matched.
GetRuleResult_FirstOfMany(rules) ==
    IF Len(rules) = 0 THEN [row |-> <<>>, err |-> "nil"]
    ELSE LET parsed == parseConfig(rules[1])
         IN  IF ~parsed.ok THEN [row |-> <<rules[1]>>, err |-> "InternalError"]
             ELSE [row |-> <<parsed.rule>>, err |-> "nil"]

\* What GetRule returns for the rows its SELECT matched: [row, err], the row
\* a sequence of at most one record (empty: nil).
GetRuleResult(rules) ==
    IF Len(rules) = 0 THEN [row |-> <<>>, err |-> "nil"]
    ELSE IF Len(rules) = 1
    THEN LET parsed == parseConfig(rules[1])
         IN  IF ~parsed.ok THEN [row |-> <<rules[1]>>, err |-> "InternalError"]
             ELSE [row |-> <<parsed.rule>>, err |-> "nil"]
    ELSE [row |-> <<>>, err |-> "InternalError"]

GetRule(id, dbErr) ==
    /\ pkg = "ingestionRules"
    /\ LET Match(row) == row.id = id
           result == IF dbErr THEN [row |-> <<>>, err |-> "BadRequest"]
                     ELSE GetRuleResult(ScanAll(SelectSeq(ingestion_rules, Match)))
       IN  last' = [op |-> "GetRule", id |-> id, row |-> result.row,
                    err |-> result.err, dbErr |-> dbErr]
    /\ UNCHANGED <<pkg, ingestion_rules, pipelines, agent_config, deploySeq, editedSince>>

DeleteRule(id, dbErr) ==
    /\ pkg = "ingestionRules"
    /\ LET Keep(row) == row.id # id
       IN  ingestion_rules' =
                IF dbErr THEN ingestion_rules ELSE SelectSeq(ingestion_rules, Keep)
    /\ last' = [op |-> "DeleteRule", id |-> id,
                err |-> IF dbErr THEN "BadRequest" ELSE "nil"]
    /\ editedSince' = IF dbErr THEN editedSince ELSE editedSince \ {id}
    /\ UNCHANGED <<pkg, pipelines, agent_config, deploySeq>>

\* A WHERE clause that passes over the rules already Deploying.
MarkDeployingMatch_SkipsDeploying(row, ruleType) ==
    row.rule_type = ruleType /\ row.deployment_status # Deploying

\* The WHERE clause of MarkDeploying's UPDATE.
MarkDeployingMatch(row, ruleType) == row.rule_type = ruleType

MarkDeploying(seq, ruleType, dbErr) ==
    /\ pkg = "ingestionRules"
    /\ LET Match(row) == MarkDeployingMatch(row, ruleType)
           Set(row) == [row EXCEPT !.deployment_status = Deploying,
                                   !.deployment_sequence = seq]
       IN  ingestion_rules' =
                IF dbErr THEN ingestion_rules
                ELSE [i \in DOMAIN ingestion_rules |->
                        IF Match(ingestion_rules[i]) THEN Set(ingestion_rules[i])
                        ELSE ingestion_rules[i]]
    /\ last' = IF dbErr THEN [op |-> "MarkDeploying", err |-> "BadRequest"]
                ELSE [op |-> "MarkDeploying", seq |-> seq, ruleType |-> ruleType,
                      err |-> "nil"]
    /\ deploySeq' = IF dbErr THEN deploySeq ELSE seq
    /\ editedSince' = IF dbErr THEN editedSince ELSE {}
    /\ UNCHANGED <<pkg, pipelines, agent_config>>

\* The WHERE clause of UpdateStatusBySeq's UPDATE, "deployment_sequence=$3":
\* the statement names three parameters and is given four arguments, status,
\* time.Now(), errorMessage and seq, so $3 is errorMessage and seq is bound to
\* nothing.  A row matches when its sequence number reads as the message.
UpdateStatusBySeqMatch(row, seq, errorMessage) ==
    ToString(row.deployment_sequence) = errorMessage

UpdateStatusBySeq(seq, status, errorMessage, dbErr) ==
    /\ pkg = "ingestionRules"
    /\ LET Match(row) == UpdateStatusBySeqMatch(row, seq, errorMessage)
           Set(row) == [row EXCEPT !.deployment_status = status,
                                   !.error_message = errorMessage]
       IN  ingestion_rules' =
                IF dbErr THEN ingestion_rules
                ELSE [i \in DOMAIN ingestion_rules |->
                        IF Match(ingestion_rules[i]) THEN Set(ingestion_rules[i])
                        ELSE ingestion_rules[i]]
    /\ last' = IF dbErr THEN [op |-> "UpdateStatusBySeq", err |-> "BadRequest"]
                ELSE [op |-> "UpdateStatusBySeq", seq |-> seq, status |-> status,
                      errorMessage |-> errorMessage, err |-> "nil"]
    /\ UNCHANGED <<pkg, pipelines, agent_config, deploySeq, editedSince>>

-----------------------------------------------------------------------------
(* Package pipelines *)

Aliases == {"al"}
Filters == {"attributes.x = 1"}

\* A PostablePipeline as the caller submits it.
PostablePipelines ==
    [OrderId : {1}, Enabled : BOOLEAN, Name : Names, Alias : Aliases,
     Filter : Filters, Config : Configs, isValid : BOOLEAN]

\* The model.Pipeline insertPipeline builds.
PipelineInsertRow(postable, id, rawConfig) ==
    [Id |-> id, OrderId |-> postable.OrderId, Enabled |-> postable.Enabled,
     Name |-> postable.Name, Alias |-> postable.Alias, Filter |-> postable.Filter,
     Config |-> postable.Config, RawConfig |-> rawConfig]

\* The row the INSERT of insertPipeline stores.
InsertedPipelineRow(insertRow) ==
    [id |-> insertRow.Id, order_id |-> insertRow.OrderId,
     enabled |-> insertRow.Enabled, name |-> insertRow.Name,
     alias |-> insertRow.Alias, filter |-> insertRow.Filter,
     config_json |-> insertRow.RawConfig]

\* What insertPipeline does before it touches the database.
insertPipelineStep(postable) ==
    IF ~IsValid(postable) THEN "validate"
    ELSE IF MarshalFails(postable.Config) THEN "marshal"
    ELSE "exec"

insertPipeline(postable, id, dbErr) ==
    /\ pkg = "pipelines"
    /\ insertPipelineStep(postable) = "exec"
            => /\ id \notin TableIds(pipelines)            \* uuid.New()
               /\ ~dbErr => Len(pipelines) < MaxRows
    /\ LET step == insertPipelineStep(postable)
           insertRow == PipelineInsertRow(postable, id, Marshal(postable.Config))
       IN  /\ pipelines' =
                IF step = "exec" /\ ~dbErr
                THEN Append(pipelines, InsertedPipelineRow(insertRow))
                ELSE pipelines
           /\ last' =
                IF step # "exec"
                THEN [op |-> "insertPipeline", isValid |-> postable.isValid,
                      row |-> <<>>, err |-> step]
                ELSE [op |-> "insertPipeline", isValid |-> postable.isValid,
                      config |-> postable.Config, row |-> <<insertRow>>,
                      err |-> IF dbErr THEN "db" ELSE "nil"]
    /\ UNCHANGED <<pkg, ingestion_rules, agent_config, deploySeq, editedSince>>

RECURSIVE Repeat(_, _)
Repeat(row, n) == IF n = 0 THEN <<>> ELSE <<row>> \o Repeat(row, n - 1)

RECURSIVE JoinByVersion(_, _, _)
\* FROM pipelines r, agent_config_elements e, agent_config_versions v WHERE
\* r.id = e.element_id AND v.id = e.version_id AND e.element_type = $1 AND
\* v.version = $2: one result row for every element of the version that names r.
JoinByVersion(table, elementType, version) ==
    IF Len(table) = 0 THEN <<>>
    ELSE LET r == Head(table)
             matching == {e \in agent_config : /\ e.element_id = r.id
                                               /\ e.element_type = elementType
                                               /\ e.version = version}
         IN  Repeat(r, Cardinality(matching))
                \o JoinByVersion(Tail(table), elementType, version)

\* What getPipelinesByVersion returns for the rows its SELECT matched.
PipelinesByVersionResult(rows) ==
    IF Len(rows) = 0 THEN [rows |-> <<>>, errors |-> <<>>]
    ELSE RangeParse(ScanAll(rows))

getPipelinesByVersion(version, dbErr) ==
    /\ pkg = "pipelines"
    /\ LET result == IF dbErr THEN [rows |-> <<>>, errors |-> <<"db">>]
                     ELSE PipelinesByVersionResult(
                            JoinByVersion(pipelines, logPipelines, version))
       IN  last' = [op |-> "getPipelinesByVersion", version |-> version,
                    rows |-> result.rows, errors |-> result.errors, dbErr |-> dbErr]
    /\ UNCHANGED <<pkg, ingestion_rules, pipelines, agent_config, deploySeq, editedSince>>

\* What GetPipeline returns for the rows its SELECT matched: [row, err].
GetPipelineResult(rows) ==
    IF Len(rows) = 0 THEN [row |-> <<>>, err |-> "nil"]
    ELSE IF Len(rows) = 1
    THEN LET parsed == parseConfig(rows[1])
         IN  IF ~parsed.ok THEN [row |-> <<rows[1]>>, err |-> "InternalError"]
             ELSE [row |-> <<parsed.rule>>, err |-> "nil"]
    ELSE [row |-> <<>>, err |-> "InternalError"]

GetPipeline(id, dbErr) ==
    /\ pkg = "pipelines"
    /\ LET Match(row) == row.id = id
           result == IF dbErr THEN [row |-> <<>>, err |-> "BadRequest"]
                     ELSE GetPipelineResult(ScanAll(SelectSeq(pipelines, Match)))
       IN  last' = [op |-> "GetPipeline", id |-> id, row |-> result.row,
                    err |-> result.err, dbErr |-> dbErr]
    /\ UNCHANGED <<pkg, ingestion_rules, pipelines, agent_config, deploySeq, editedSince>>

DeletePipeline(id, dbErr) ==
    /\ pkg = "pipelines"
    /\ LET Keep(row) == row.id # id
       IN  pipelines' = IF dbErr THEN pipelines ELSE SelectSeq(pipelines, Keep)
    /\ last' = [op |-> "DeletePipeline", id |-> id,
                err |-> IF dbErr THEN "BadRequest" ELSE "nil"]
    /\ UNCHANGED <<pkg, ingestion_rules, agent_config, deploySeq, editedSince>>

-----------------------------------------------------------------------------
(* The database a Repo is constructed over, and the specifications *)

\* A row of ingestion_rules written before this Repo was constructed.
LegacyRule(id, ruleType, raw, status, seq) ==
    [id |-> id, name |-> "a", source |-> "logs", rule_type |-> ruleType,
     rule_subtype |-> "always_on", priority |-> 1, config_json |-> raw,
     deployment_status |-> status, deployment_sequence |-> seq,
     error_message |-> DefaultErrorMessage]

\* A row of pipelines written before this Repo was constructed.
LegacyPipeline(id, raw) ==
    [id |-> id, order_id |-> 1, enabled |-> TRUE, name |-> "a", alias |-> "al",
     filter |-> "attributes.x = 1", config_json |-> raw]

\* Rows a Repo of an earlier run inserted and never deployed.
LegacyRules ==
    {LegacyRule(id, ruleType, Marshal(<<"0">>),
                DefaultDeployStatus, DefaultDeploySequence) :
        id \in Ids, ruleType \in RuleTypes}

LegacyPipelines == {LegacyPipeline(id, Marshal(<<"0">>)) : id \in Ids}

\* Rows of any writer: the configuration may be malformed.
StoredRules ==
    {LegacyRule(id, ruleType, raw, status, DefaultDeploySequence) :
        id \in Ids, ruleType \in RuleTypes, raw \in {Marshal(<<"0">>), MalformedRaw},
        status \in {PendingDeploy, Deploying}}

StoredPipelines ==
    {LegacyPipeline(id, raw) : id \in Ids, raw \in {Marshal(<<"0">>), MalformedRaw}}

\* Elements of deployed agent configuration versions.
AgentConfigElements ==
    [element_id : Ids, element_type : {logPipelines, "ingestion_rules"},
     version : 1..MaxVersion]

\* Tables in which no two rows share an id.
UniqueIds(tables) ==
    {t \in tables : \A i, j \in DOMAIN t : t[i].id = t[j].id => i = j}

\* NewRepo(db) of either package over a database that holds legacy rows.
Init ==
    /\ pkg \in {"ingestionRules", "pipelines"}
    /\ ingestion_rules \in
            IF pkg = "ingestionRules" THEN UniqueIds(Tuples(LegacyRules, MaxRows)) ELSE {<<>>}
    /\ pipelines \in
            IF pkg = "pipelines" THEN UniqueIds(Tuples(LegacyPipelines, MaxRows)) ELSE {<<>>}
    /\ agent_config \in
            IF pkg = "pipelines"
            THEN {S \in SUBSET AgentConfigElements : Cardinality(S) <= 2}
            ELSE {{}}
    /\ last = [op |-> "NewRepo"]
    /\ deploySeq = -1
    /\ editedSince = {}

NextInsertRule ==
    \E postable \in PostableIngestionRules, id \in Ids, dbErr \in BOOLEAN :
        InsertRule(postable, id, dbErr)
NextEditRule ==
    \E id \in Ids, name \in Names, ruleSubType \in SubTypes,
       priority \in 0..MaxPriority, config \in Configs, dbErr \in BOOLEAN :
        EditRule(id, name, ruleSubType, priority, config, <<>>, dbErr)
NextGetDropRules == \E dbErr \in BOOLEAN : GetDropRules(dbErr)
NextGetDropRulesByStatus ==
    \E s \in {PendingDeploy, Deploying, Deployed, DeployFailed}, dbErr \in BOOLEAN :
        GetDropRulesByStatus(s, dbErr)
NextGetRule == \E id \in Ids, dbErr \in BOOLEAN : GetRule(id, dbErr)
NextDeleteRule == \E id \in Ids, dbErr \in BOOLEAN : DeleteRule(id, dbErr)
NextMarkDeploying ==
    \E seq \in 0..MaxSeq, ruleType \in RuleTypes, dbErr \in BOOLEAN :
        MarkDeploying(seq, ruleType, dbErr)
NextUpdateStatusBySeq ==
    \E seq \in 0..MaxSeq, status \in TerminalStatuses,
       errorMessage \in ErrorMessages, dbErr \in BOOLEAN :
        UpdateStatusBySeq(seq, status, errorMessage, dbErr)
NextInsertPipeline ==
    \E postable \in PostablePipelines, id \in Ids, dbErr \in BOOLEAN :
        insertPipeline(postable, id, dbErr)
NextGetPipelinesByVersion ==
    \E version \in 1..MaxVersion, dbErr \in BOOLEAN :
        getPipelinesByVersion(version, dbErr)
NextGetPipeline == \E id \in Ids, dbErr \in BOOLEAN : GetPipeline(id, dbErr)
NextDeletePipeline == \E id \in Ids, dbErr \in BOOLEAN : DeletePipeline(id, dbErr)

Next ==
    \/ NextInsertRule
    \/ NextEditRule
    \/ NextGetDropRules
    \/ NextGetDropRulesByStatus
    \/ NextGetRule
    \/ NextDeleteRule
    \/ NextMarkDeploying
    \/ NextUpdateStatusBySeq
    \/ NextInsertPipeline
    \/ NextGetPipelinesByVersion
    \/ NextGetPipeline
    \/ NextDeletePipeline

Spec == Init /\ [][Next]_vars

\* The writers of both repositories.
NextWrite ==
    \/ NextInsertRule
    \/ NextEditRule
    \/ NextDeleteRule
    \/ NextInsertPipeline
    \/ NextDeletePipeline

SpecWrite == Init /\ [][NextWrite]_vars

\* An edit that leaves the rule as the legacy rows have it, but for the
\* configuration.
NextEditRuleDeploy ==
    \E id \in Ids, dbErr \in BOOLEAN :
        EditRule(id, "a", "always_on", 1, <<>>, <<>>, dbErr)

\* The deployment bookkeeping of the ingestion rules.
NextDeploy ==
    \/ NextEditRuleDeploy
    \/ NextDeleteRule
    \/ NextMarkDeploying
    \/ NextUpdateStatusBySeq

InitDeploy == Init /\ pkg = "ingestionRules"

SpecDeploy == InitDeploy /\ [][NextDeploy]_vars

\* The readers of both repositories, over the tables of any writer: rows may
\* share an id.
NextRead ==
    \/ NextGetDropRules
    \/ NextGetDropRulesByStatus
    \/ NextGetRule
    \/ NextDeleteRule
    \/ NextGetPipelinesByVersion
    \/ NextGetPipeline
    \/ NextDeletePipeline

InitRead ==
    /\ pkg \in {"ingestionRules", "pipelines"}
    /\ ingestion_rules \in
            IF pkg = "ingestionRules" THEN Tuples(StoredRules, MaxRows) ELSE {<<>>}
    /\ pipelines \in
            IF pkg = "pipelines" THEN Tuples(StoredPipelines, MaxRows) ELSE {<<>>}
    /\ agent_config \in
            IF pkg = "pipelines"
            THEN {S \in SUBSET AgentConfigElements : Cardinality(S) <= 2}
            ELSE {{}}
    /\ last = [op |-> "NewRepo"]
    /\ deploySeq = -1
    /\ editedSince = {}

SpecRead == InitRead /\ [][NextRead]_vars

-----------------------------------------------------------------------------
(* Properties *)

\* The rows of a table that carry an id.
RowsOf(table, id) == {i \in DOMAIN table : table[i].id = id}

\* Two tables of the same rows agree on a row's deployment columns.
SameDeployment(old, new) ==
    /\ new.deployment_status = old.deployment_status
    /\ new.deployment_sequence = old.deployment_sequence

\* C1: when IsValid fails, insertPipeline / InsertRule returns an error and a
\* nil row, and the tables pipelines / ingestion_rules are as before the call.
C1_InvalidInsertRejected ==
    [][(last'.op \in {"InsertRule", "insertPipeline"} /\ ~last'.isValid)
        => /\ last'.err # "nil"
           /\ last'.row = <<>>
           /\ ingestion_rules' = ingestion_rules
           /\ pipelines' = pipelines]_vars

\* An invalid rule was submitted to a table that holds rows.
C1_Witness ==
    /\ last.op = "InsertRule"
    /\ ~last.isValid
    /\ last.err = "validate"
    /\ Len(ingestion_rules) > 0

C3_UpdateStatusBySeqIsBySeq ==
    [][(last'.op = "UpdateStatusBySeq" /\ last'.err = "nil")
        => /\ DOMAIN ingestion_rules' = DOMAIN ingestion_rules
           /\ \A i \in DOMAIN ingestion_rules :
                IF ingestion_rules[i].deployment_sequence = last'.seq
                THEN /\ ingestion_rules'[i].deployment_status = last'.status
                     /\ ingestion_rules'[i].error_message = last'.errorMessage
                ELSE /\ ingestion_rules'[i].deployment_status
                            = ingestion_rules[i].deployment_status
                     /\ ingestion_rules'[i].error_message
                            = ingestion_rules[i].error_message]_vars

TableOf(op) ==
    IF op \in {"GetRule", "DeleteRule"} THEN ingestion_rules ELSE pipelines

\* The fetch a delete is followed by.
FetchOf(op) == IF op = "DeleteRule" THEN "GetRule" ELSE "GetPipeline"

\* C5: when the query succeeds and no row has the id, GetRule / GetPipeline
\* returns a nil row and a nil error; so does the fetch of an id right after
\* DeleteRule / DeletePipeline of that id succeeded.
C5_NotFoundIsNoError ==
    [][/\ (/\ last'.op \in {"GetRule", "GetPipeline"}
           /\ ~last'.dbErr
           /\ RowsOf(TableOf(last'.op), last'.id) = {})
          => (last'.row = <<>> /\ last'.err = "nil")
       /\ (/\ last.op \in {"DeleteRule", "DeletePipeline"}
           /\ last.err = "nil"
           /\ last'.op = FetchOf(last.op)
           /\ last'.id = last.id
           /\ ~last'.dbErr)
          => (last'.row = <<>> /\ last'.err = "nil")]_vars

\* A rule's id was fetched from a table that holds other rows and not found.
C5_Witness ==
    /\ last.op = "GetRule"
    /\ ~last.dbErr
    /\ last.row = <<>>
    /\ last.err = "nil"
    /\ Len(ingestion_rules) > 0
    /\ RowsOf(ingestion_rules, last.id) = {}

\* C6: when more than one row has the id, GetRule / GetPipeline returns an
\* internal error and a nil row.
C6_ManyRowsIsInternalError ==
    (/\ last.op \in {"GetRule", "GetPipeline"}
     /\ ~last.dbErr
     /\ Cardinality(RowsOf(TableOf(last.op), last.id)) > 1)
    => (last.err = "InternalError" /\ last.row = <<>>)

\* An id two well-formed rows share was fetched.
C6_Witness ==
    /\ last.op = "GetRule"
    /\ ~last.dbErr
    /\ last.err = "InternalError"
    /\ Cardinality(RowsOf(ingestion_rules, last.id)) > 1
    /\ \A i \in RowsOf(ingestion_rules, last.id) :
            Unmarshal(ingestion_rules[i].config_json).ok

\* The rows a list operation's query matches, in table order.
Matched(call) ==
    LET DropRule(row) == row.rule_type = IngestionRuleTypeDrop
        DropRuleOfStatus(row) == DropRule(row) /\ row.deployment_status = call.s
    IN  IF call.op = "GetDropRules" THEN SelectSeq(ingestion_rules, DropRule)
        ELSE IF call.op = "GetDropRulesByStatus"
        THEN SelectSeq(ingestion_rules, DropRuleOfStatus)
        ELSE JoinByVersion(pipelines, logPipelines, call.version)

\* C7: when the query of a list operation succeeds, the call returns every
\* well-formed matching row with its configuration parsed, and one error for
\* each malformed matching row.
C7_ListParsesEachRow ==
    (/\ last.op \in {"GetDropRules", "GetDropRulesByStatus", "getPipelinesByVersion"}
     /\ ~last.dbErr)
    => LET matched == Matched(last)
           Malformed(row) == ~Unmarshal(row.config_json).ok
       IN  /\ \A i \in DOMAIN matched :
                Unmarshal(matched[i].config_json).ok
                => \E j \in DOMAIN last.rows :
                    /\ last.rows[j].row = matched[i]
                    /\ last.rows[j].Config = Unmarshal(matched[i].config_json).config
           /\ Len(last.errors) = Len(SelectSeq(matched, Malformed))

\* The priority to be written for a submitted one.
ExpectedPriority(submitted) == IF submitted = 0 THEN 1 ELSE submitted

\* C8: InsertRule and EditRule store and hand back priority 1 for a submitted
\* priority of 0 and the submitted priority otherwise; no row they write has
\* priority 0.
C8_DefaultPriority ==
    [][/\ (last'.op = "InsertRule" /\ last'.err = "nil")
          => /\ Len(ingestion_rules') = Len(ingestion_rules) + 1
             /\ ingestion_rules'[Len(ingestion_rules')].priority
                    = ExpectedPriority(last'.priority)
             /\ last'.row[1].Priority = ExpectedPriority(last'.priority)
             /\ ingestion_rules'[Len(ingestion_rules')].priority # 0
       /\ (last'.op = "EditRule" /\ last'.err = "nil")
          => /\ last'.Priority = ExpectedPriority(last'.priority)
             /\ \A i \in RowsOf(ingestion_rules', last'.id) :
                    /\ ingestion_rules'[i].priority = ExpectedPriority(last'.priority)
                    /\ ingestion_rules'[i].priority # 0]_vars

\* A rule submitted without a priority is stored with priority 1.
C8_Witness ==
    /\ last.op = "InsertRule"
    /\ last.err = "nil"
    /\ last.priority = 0
    /\ \E i \in DOMAIN ingestion_rules :
        /\ ingestion_rules[i].id = last.row[1].Id
        /\ ingestion_rules[i].priority = 1

\* C9: the row a successful insertPipeline, InsertRule or EditRule wrote holds
\* the serialization of the submitted Config, the record handed back carries
\* the stored RawConfig, and a failed EditRule leaves RawConfig as it was.
C9_RawConfigIsSerializedConfig ==
    [][/\ (last'.op = "InsertRule" /\ last'.err = "nil")
          => /\ ingestion_rules'[Len(ingestion_rules')].config_json
                    = Marshal(last'.config)
             /\ Unmarshal(ingestion_rules'[Len(ingestion_rules')].config_json)
                    = [ok |-> TRUE, config |-> last'.config]
             /\ last'.row[1].RawConfig
                    = ingestion_rules'[Len(ingestion_rules')].config_json
       /\ (last'.op = "insertPipeline" /\ last'.err = "nil")
          => /\ pipelines'[Len(pipelines')].config_json = Marshal(last'.config)
             /\ Unmarshal(pipelines'[Len(pipelines')].config_json)
                    = [ok |-> TRUE, config |-> last'.config]
             /\ last'.row[1].RawConfig = pipelines'[Len(pipelines')].config_json
       /\ (last'.op = "EditRule" /\ last'.err = "nil")
          => /\ last'.RawConfig = Marshal(last'.config)
             /\ \A i \in RowsOf(ingestion_rules', last'.id) :
                    ingestion_rules'[i].config_json = last'.RawConfig
       /\ (last'.op = "EditRule" /\ last'.err # "nil")
          => last'.RawConfig = last'.rawBefore]_vars

\* An edit replaced the stored configuration of a rule by another one.
C9_Witness ==
    /\ last.op = "EditRule"
    /\ last.err = "nil"
    /\ last.config = <<>>
    /\ last.RawConfig # last.rawBefore
    /\ \E i \in RowsOf(ingestion_rules, last.id) :
            ingestion_rules[i].config_json = <<"[", "]">>

\* C10: a rule edited after MarkDeploying(seq, type) and before
\* UpdateStatusBySeq(seq, status, msg), seq >= 0, with no MarkDeploying in
\* between, is still pending with sequence -2 after UpdateStatusBySeq.
C10_EditDuringDeploymentIsKept ==
    [][(/\ last'.op = "UpdateStatusBySeq"
        /\ last'.err = "nil"
        /\ last'.seq >= 0
        /\ last'.seq = deploySeq)
        => \A i \in DOMAIN ingestion_rules :
                ingestion_rules[i].id \in editedSince
                => /\ ingestion_rules'[i].deployment_status = PendingDeploy
                   /\ ingestion_rules'[i].deployment_sequence = -2]_vars

====
